---- MODULE Spec2Model ----
(***************************************************************************)
(* Model of clean-pedal-pricing.py: the cell classifiers, the row scan of  *)
(* clean_spreadsheet (person / date state machine and the four extraction  *)
(* checks) and the assembly of the returned table.                         *)
(*                                                                         *)
(* Cell values are tagged records: None, Num(n), Text(s), Date(y,m,d,hh).  *)
(* Text is a TLA+ string over the characters U+0001 to U+00FF (ASCII and   *)
(* Latin-1) except the grave accent U+0060: the characters a TLA+ string   *)
(* literal can hold.  A datetime keeps its date and its hour.  Numbers are *)
(* integers; float(price) keeps the value.                                 *)
(***************************************************************************)
EXTENDS Integers, Sequences, FiniteSets, TLC

(***************************************************************************)
(* Cell values                                                             *)
(***************************************************************************)
None == [t |-> "none"]
Num(n) == [t |-> "num", v |-> n]
Text(s) == [t |-> "str", v |-> s]
Date(y, m, d, hh) == [t |-> "date", y |-> y, m |-> m, d |-> d, hh |-> hh]

\* Python truthiness of a cell value (`col_a and ...`).
Truthy(value) ==
    CASE value.t = "none" -> FALSE
      [] value.t = "num" -> value.v # 0
      [] value.t = "str" -> value.v # ""
      [] OTHER -> TRUE

(***************************************************************************)
(* String helpers (str methods used by the classifiers), on U+0001..U+00FF *)
(***************************************************************************)
\* the letters with an upper and a lower case, in the same order in both
UpperChars == "ABCDEFGHIJKLMNOPQRSTUVWXYZÀÁÂÃÄÅÆÇÈÉÊËÌÍÎÏÐÑÒÓÔÕÖØÙÚÛÜÝÞ"
LowerChars == "abcdefghijklmnopqrstuvwxyzàáâãäåæçèéêëìíîïðñòóôõöøùúûüýþ"
\* the letters without a case pair
OtherAlphaChars == "ªµºßÿ"
DigitChars == "0123456789"
\* superscript two, three and one count as digits for str.isdigit
SuperscriptDigitChars == "²³¹"

CharAt(s, i) == SubSeq(s, i, i)

\* `c in s` for a one-character string c
HasChar(s, c) == \E i \in 1..Len(s) : CharAt(s, i) = c

\* `kw in s`
Contains(s, kw) ==
    \E i \in 1..(Len(s) - Len(kw) + 1) : SubSeq(s, i, i + Len(kw) - 1) = kw

IsUpperChar(c) == HasChar(UpperChars, c)
IsDigitChar(c) == HasChar(DigitChars, c) \/ HasChar(SuperscriptDigitChars, c)
IsAlphaChar(c) ==
    HasChar(UpperChars, c) \/ HasChar(LowerChars, c) \/ HasChar(OtherAlphaChars, c)
\* str.isspace on one character: blank, tab, line feed, carriage return, form
\* feed, then (written as the characters themselves) vertical tab U+000B, the
\* separators U+001C to U+001F, next line U+0085 and no-break space U+00A0
WhitespaceChars ==
    {" ", "\t", "\n", "\r", "\f", "", "", "", "", "", "", " "}

IsSpaceChar(c) == c \in WhitespaceChars

LowerChar(c) ==
    IF IsUpperChar(c)
    THEN CharAt(LowerChars, CHOOSE i \in 1..Len(UpperChars) : CharAt(UpperChars, i) = c)
    ELSE c

RECURSIVE Lower(_)
Lower(s) ==
    IF s = "" THEN "" ELSE LowerChar(CharAt(s, 1)) \o Lower(SubSeq(s, 2, Len(s)))

RECURSIVE LStrip(_)
LStrip(s) ==
    IF s # "" /\ IsSpaceChar(CharAt(s, 1)) THEN LStrip(SubSeq(s, 2, Len(s))) ELSE s

RECURSIVE RStrip(_)
RStrip(s) ==
    IF s # "" /\ IsSpaceChar(CharAt(s, Len(s)))
    THEN RStrip(SubSeq(s, 1, Len(s) - 1))
    ELSE s

Strip(s) == RStrip(LStrip(s))

\* str.split(): the maximal runs of non-whitespace characters
RECURSIVE SplitFrom(_, _, _)
SplitFrom(s, i, word) ==
    IF i > Len(s)
    THEN IF word = "" THEN <<>> ELSE <<word>>
    ELSE IF IsSpaceChar(CharAt(s, i))
         THEN (IF word = "" THEN <<>> ELSE <<word>>) \o SplitFrom(s, i + 1, "")
         ELSE SplitFrom(s, i + 1, word \o CharAt(s, i))

Split(s) == SplitFrom(s, 1, "")

EndsWith(s, suffix) ==
    Len(s) >= Len(suffix) /\ SubSeq(s, Len(s) - Len(suffix) + 1, Len(s)) = suffix

(***************************************************************************)
(* datetime: ordinals, comparison, timedelta and strftime                  *)
(***************************************************************************)
IsLeap(y) == y % 4 = 0 /\ (y % 100 # 0 \/ y % 400 = 0)

DaysInMonth == <<31, 28, 31, 30, 31, 30, 31, 31, 30, 31, 30, 31>>
DaysBeforeMonthTable == <<0, 31, 59, 90, 120, 151, 181, 212, 243, 273, 304, 334>>

DaysBeforeYear(year) ==
    LET y == year - 1 IN y * 365 + (y \div 4) - (y \div 100) + (y \div 400)

DaysBeforeMonth(y, m) ==
    DaysBeforeMonthTable[m] + (IF m > 2 /\ IsLeap(y) THEN 1 ELSE 0)

\* proleptic Gregorian ordinal, 0001-01-01 is day 1
ToOrdinal(y, m, d) == DaysBeforeYear(y) + DaysBeforeMonth(y, m) + d

\* the inverse of ToOrdinal, as [y, m, d]
FromOrdinal(ord) ==
    LET n0 == ord - 1
        n400 == n0 \div 146097
        r400 == n0 % 146097
        n100 == r400 \div 36524
        r100 == r400 % 36524
        n4 == r100 \div 1461
        r4 == r100 % 1461
        n1 == r4 \div 365
        n == r4 % 365
        year == n400 * 400 + 1 + n100 * 100 + n4 * 4 + n1
    IN  IF n1 = 4 \/ n100 = 4
        THEN [y |-> year - 1, m |-> 12, d |-> 31]
        ELSE LET leap == n1 = 3 /\ (n4 # 24 \/ n100 = 3)
                 m0 == (n + 50) \div 32
                 p0 == DaysBeforeMonthTable[m0] + (IF m0 > 2 /\ leap THEN 1 ELSE 0)
                 month == IF p0 > n THEN m0 - 1 ELSE m0
                 preceding ==
                     IF p0 > n
                     THEN p0 - (DaysInMonth[month] + (IF month = 2 /\ leap THEN 1 ELSE 0))
                     ELSE p0
             IN  [y |-> year, m |-> month, d |-> n - preceding + 1]

\* total order of datetimes (hours since the epoch of ordinals)
DtKey(value) == ToOrdinal(value.y, value.m, value.d) * 24 + value.hh

\* datetime(2025, 7, 24)
Anchor == Date(2025, 7, 24, 0)

\* the result of an addition that leaves datetime's range (OverflowError)
Overflow == [t |-> "OverflowError"]

\* datetime.max is 9999-12-31
MaxOrdinal == ToOrdinal(9999, 12, 31)

\* x + timedelta(days=365)
PlusCalendarYear(value) ==
    IF value.y + 1 > 9999 THEN Overflow ELSE [value EXCEPT !.y = @ + 1]

plus_365_days(value) ==
    LET ord == ToOrdinal(value.y, value.m, value.d) + 365
        r == FromOrdinal(ord)
    IN  IF ord > MaxOrdinal THEN Overflow ELSE Date(r.y, r.m, r.d, value.hh)

Pad(n, width) ==
    LET s == ToString(n)
    IN  SubSeq("0000", 1, width - Len(s)) \o s

\* strftime('%Y-%m-%d')
strftime_ymd(value) == Pad(value.y, 4) \o "-" \o Pad(value.m, 2) \o "-" \o Pad(value.d, 2)

(***************************************************************************)
(* Cell classifiers                                                        *)
(***************************************************************************)
is_date_value(value) == value.t = "date"

is_valid_price_closed_anchor(value) ==
    CASE value.t = "none" -> FALSE
      [] value.t = "date" -> DtKey(value) <= DtKey(Anchor)
      [] value.t = "num" -> value.v > 0 /\ value.v < 10000
      [] OTHER -> FALSE

is_valid_price_no_ceiling(value) ==
    CASE value.t = "none" -> FALSE
      [] value.t = "date" -> DtKey(value) < DtKey(Anchor)
      [] value.t = "num" -> value.v > 0
      [] OTHER -> FALSE

is_valid_price(value) ==
    CASE value.t = "none" -> FALSE
      [] value.t = "date" -> DtKey(value) < DtKey(Anchor)
      [] value.t = "num" -> value.v > 0 /\ value.v < 10000
      [] OTHER -> FALSE

convert_date_to_price(value) ==
    IF is_date_value(value) /\ DtKey(value) < DtKey(Anchor)
    THEN Num(value.d)
    ELSE value

PersonSkipKeywords ==
    {"total", "fmv", "$20 less", "pedal", "label", "needs", "for lot",
     "payout", "boss ", "mxr ", "tc electronic", "digitech ", "ibanez ",
     "reverb", "delay", "overdrive", "distortion", "fuzz", "chorus",
     "flanger", "compressor", "looper", "wah", "boost", "tremolo",
     "preamp", "squeezer", "gold", "ridge", "ray", "mjolnir",
     "vemuram", "neunaber", "illumine", "xotic", "kernom", "mythos",
     "eqd", "wd orange", "jan ray", "acapulco", "bb preamp"}

CommonFirstNames ==
    {"michael", "david", "james", "john", "robert", "william", "richard",
     "thomas", "christopher", "daniel", "matthew", "joseph", "anthony",
     "donald", "mark", "paul", "steven", "andrew", "kenneth", "joshua",
     "kevin", "brian", "george", "edward", "ronald", "timothy", "jason",
     "jeffrey", "ryan", "jacob", "gary", "nicholas", "eric", "jonathan",
     "stephen", "larry", "justin", "scott", "brandon", "frank", "benjamin",
     "gregory", "raymond", "samuel", "patrick", "alexander", "jack", "dennis",
     "jerry", "tyler", "aaron", "jose", "adam", "henry", "nathan", "douglas",
     "zachary", "peter", "kyle", "walter", "ethan", "jeremy", "harold",
     "keith", "christian", "roger", "noah", "gerald", "carl", "terry", "sean",
     "austin", "arthur", "lawrence", "jesse", "dylan", "bryan", "joe", "jordan",
     "billy", "bruce", "albert", "willie", "gabriel", "logan", "alan", "juan",
     "wayne", "roy", "ralph", "randy", "eugene", "vincent", "russell", "elijah",
     "louis", "bobby", "philip", "johnny", "bradley", "neil", "andre", "jean",
     "rob", "steve", "oliver", "jimmy", "martin", "dave", "matt", "chris",
     "mike", "bill", "bob", "tom", "dan", "jim", "tony", "pablo", "joey",
     "stefan", "salvatore", "jimi", "damon", "jake",
     "vince", "brett", "jamie", "doug",
     "tracy", "adan", "mitchell", "daryl", "guy",
     "jean-claude", "gandhi"}

BrandIndicators ==
    {"micro", "mini", "super", "ultra", "pro", "deluxe", "king", "master",
     "special", "custom", "classic", "vintage", "mk", "v1", "v2", "v3", "v4"}

\* is_person_name_simple on the text of a str cell
PersonNameText(raw) ==
    LET value == Strip(raw)
        value_lower == Lower(value)
        words == Split(value)
    IN  IF Len(value) < 5 THEN FALSE
        ELSE IF EndsWith(value, ".") THEN FALSE
        ELSE IF HasChar(value, ":") THEN FALSE
        ELSE IF \E keyword \in PersonSkipKeywords : Contains(value_lower, keyword) THEN FALSE
        ELSE IF Len(words) < 2 \/ Len(words) > 4 THEN FALSE
        ELSE IF ~ \A k \in 1..Len(words) : IsUpperChar(CharAt(words[k], 1)) THEN FALSE
        ELSE IF \E i \in 1..Len(value) : IsDigitChar(CharAt(value, i)) THEN FALSE
        ELSE IF Len(value) > 60 THEN FALSE
        ELSE IF Lower(words[1]) \in CommonFirstNames THEN TRUE
        ELSE IF \E indicator \in BrandIndicators : Contains(value_lower, indicator) THEN FALSE
        ELSE FALSE

PedalSkipKeywords == {"total", "fmv", "$20 less", "label", "needs", "for lot", "payout"}

PedalIndicators ==
    {"pedal", "reverb", "delay", "overdrive", "distortion", "fuzz",
     "chorus", "flanger", "wah", "boost", "compressor", "looper",
     "boss", "mxr", "tc electronic", "digitech", "ibanez",
     "dunlop", "walrus", "eqd", "keeley", "jhs", "wampler",
     "line 6", "behringer", "mooer", "pigtronix", "earthquaker"}

\* is_pedal_name on the text of a str cell
PedalNameText(value) ==
    LET value_lower == Lower(value)
    IN  IF \E keyword \in PedalSkipKeywords : Contains(value_lower, keyword) THEN FALSE
        ELSE IF \E indicator \in PedalIndicators : Contains(value_lower, indicator) THEN TRUE
        ELSE IF Len(value) > 5 /\ \E i \in 1..Len(value) : IsAlphaChar(CharAt(value, i)) THEN TRUE
        ELSE FALSE

(***************************************************************************)
(* The texts the sheets below hold, with each predicate's answer on them   *)
(* tabulated once; any other text is classified directly.                  *)
(***************************************************************************)
SheetTexts ==
    {"Mike Jones", "\tJohn Smith\n", "Boss Chorus", "Total", "Tube Screamer", "MXR Phase 90"}

PersonNameTable == [s \in SheetTexts |-> PersonNameText(s)]

PedalNameTable == [s \in SheetTexts |-> PedalNameText(s)]

is_person_name_simple(value) ==
    /\ value.t = "str"
    /\ IF value.v \in SheetTexts THEN PersonNameTable[value.v] ELSE PersonNameText(value.v)

is_pedal_name(value) ==
    /\ value.t = "str"
    /\ IF value.v \in SheetTexts THEN PedalNameTable[value.v] ELSE PedalNameText(value.v)

(***************************************************************************)
(* clean_spreadsheet: the scan                                             *)
(***************************************************************************)
VARIABLES
    pc,               \* "scan" in the row loop, "returned" / "raised" after it
    row_idx,          \* number of rows read so far
    row,              \* col_a .. col_h of the row read last (<<>> before the first)
    current_person,
    current_date,
    last_valid_date,
    cleaned_data,     \* list of the records appended so far
    df,               \* the returned table (a sequence of output records)
    seen_ab           \* columns A and B of every row read so far, oldest first

vars == <<pc, row_idx, row, current_person, current_date, last_valid_date,
          cleaned_data, df, seen_ab>>

\* has_valid_date = col_b and is_date_value(col_b) and col_b >= datetime(2025, 7, 24)
has_valid_date(col_b) ==
    Truthy(col_b) /\ is_date_value(col_b) /\ DtKey(col_b) >= DtKey(Anchor)

\* is_potential_person = col_a and is_person_name_simple(col_a)
is_potential_person(col_a) == Truthy(col_a) /\ is_person_name_simple(col_a)

\* the scan state after a person row that carries a valid date
person_with_date_keeps_last(col_a, col_b, lvd) ==
    [current_person |-> Text(Strip(col_a.v)),
     current_date |-> col_b,
     last_valid_date |-> lvd]

person_with_date(col_a, col_b, lvd) ==
    [current_person |-> Text(Strip(col_a.v)),
     current_date |-> col_b,
     last_valid_date |-> col_b]

\* the scan state after a person row without a valid date
person_without_date_resets(col_a, lvd) ==
    [current_person |-> Text(Strip(col_a.v)),
     current_date |-> Anchor,
     last_valid_date |-> lvd]

person_without_date(col_a, lvd) ==
    [current_person |-> Text(Strip(col_a.v)),
     current_date |-> lvd,
     last_valid_date |-> lvd]

\* if current_date is None: current_date = last_valid_date
default_date_always(cd, lvd) == Anchor

default_date(cd, lvd) == IF cd = None THEN lvd ELSE cd

\* the price one cell resolves to, None when it resolves to none
price_from(cell) ==
    IF is_valid_price(cell)
    THEN LET price == convert_date_to_price(cell)
         IN  IF is_date_value(price) THEN None ELSE price
    ELSE None

\* primary column first, the secondary only when the primary gave no price
resolve_price_secondary_first(primary, secondary) ==
    LET price == price_from(secondary)
    IN  IF price = None THEN price_from(primary) ELSE price

resolve_price(primary, secondary) ==
    LET price == price_from(primary)
    IN  IF price = None THEN price_from(secondary) ELSE price

\* the dict appended to cleaned_data
entry(cp, name_cell, price, cd) ==
    [person |-> IF Truthy(cp) THEN cp.v ELSE "Unknown",
     pedal_name |-> Strip(name_cell.v),
     price |-> price.v,
     date |-> cd]

\* a name column with a primary and a secondary price column (A/B/C, D/E/F)
group_records(name_cell, primary, secondary, cp, cd) ==
    IF Truthy(name_cell) /\ is_pedal_name(name_cell)
    THEN LET price == resolve_price(primary, secondary)
         IN  IF price # None /\ price.t = "num"
             THEN <<entry(cp, name_cell, price, cd)>>
             ELSE <<>>
    ELSE <<>>

\* a name column with one price column (F/G)
single_records(name_cell, primary, cp, cd) ==
    IF Truthy(name_cell) /\ is_pedal_name(name_cell)
    THEN LET price == price_from(primary)
         IN  IF price # None /\ price.t = "num"
             THEN <<entry(cp, name_cell, price, cd)>>
             ELSE <<>>
    ELSE <<>>

\* column H, named from column A or else column D
column_h_records(col_h, col_a, col_d, cp, cd) ==
    IF Truthy(col_h) /\ is_valid_price(col_h)
    THEN LET price == convert_date_to_price(col_h)
         IN  IF ~is_date_value(price) /\ price.t = "num"
             THEN IF Truthy(col_a) /\ is_pedal_name(col_a)
                  THEN <<entry(cp, col_a, price, cd)>>
                  ELSE IF Truthy(col_d) /\ is_pedal_name(col_d)
                       THEN <<entry(cp, col_d, price, cd)>>
                       ELSE <<>>
             ELSE <<>>
    ELSE <<>>

\* the records one data row appends, in order
extract_row_first_match(r, cp, cd) ==
    LET g1 == group_records(r[1], r[2], r[3], cp, cd)
        g2 == group_records(r[4], r[5], r[6], cp, cd)
        g3 == single_records(r[6], r[7], cp, cd)
        h == column_h_records(r[8], r[1], r[4], cp, cd)
    IN  IF g1 # <<>> THEN g1 ELSE IF g2 # <<>> THEN g2 ELSE IF g3 # <<>> THEN g3 ELSE h

extract_row(r, cp, cd) ==
    group_records(r[1], r[2], r[3], cp, cd)
    \o group_records(r[4], r[5], r[6], cp, cd)
    \o single_records(r[6], r[7], cp, cd)
    \o column_h_records(r[8], r[1], r[4], cp, cd)

\* which branch of the loop body a row takes
row_kind_person_needs_date(r) ==
    IF is_potential_person(r[1]) /\ has_valid_date(r[2]) THEN "person_with_date"
    ELSE "data"

row_kind(r) ==
    IF is_potential_person(r[1]) /\ has_valid_date(r[2]) THEN "person_with_date"
    ELSE IF is_potential_person(r[1]) /\ ~has_valid_date(r[2]) THEN "person_without_date"
    ELSE "data"

\* one iteration of the row loop on the cells r = <<col_a, ..., col_h>>
ProcessRow(r) ==
    /\ row_idx' = row_idx + 1
    /\ row' = r
    /\ seen_ab' = Append(seen_ab, <<r[1], r[2]>>)
    /\ pc' = pc
    /\ df' = df
    /\ LET kind == row_kind(r)
       IN  CASE kind = "person_with_date" ->
                  LET st == person_with_date(r[1], r[2], last_valid_date)
                  IN  /\ current_person' = st.current_person
                      /\ current_date' = st.current_date
                      /\ last_valid_date' = st.last_valid_date
                      /\ cleaned_data' = cleaned_data
             [] kind = "person_without_date" ->
                  LET st == person_without_date(r[1], last_valid_date)
                  IN  /\ current_person' = st.current_person
                      /\ current_date' = st.current_date
                      /\ last_valid_date' = st.last_valid_date
                      /\ cleaned_data' = cleaned_data
             [] OTHER ->
                  LET cd == default_date(current_date, last_valid_date)
                  IN  /\ current_date' = cd
                      /\ current_person' = current_person
                      /\ last_valid_date' = last_valid_date
                      /\ cleaned_data' = cleaned_data \o extract_row(r, current_person, cd)

\* one output record: expiration date, both dates formatted, person dropped
output_record(rec) ==
    [pedal_name |-> rec.pedal_name,
     price |-> rec.price,
     date |-> strftime_ymd(rec.date),
     expiration_date |-> strftime_ymd(plus_365_days(rec.date))]

\* after the loop: the DataFrame, its expiration_date column and the return
Finish ==
    /\ pc = "scan"
    /\ IF cleaned_data = <<>>
       THEN /\ pc' = "raised"      \* df['date'] on a frame with no columns: KeyError
            /\ df' = df
       ELSE IF \E i \in DOMAIN cleaned_data : plus_365_days(cleaned_data[i].date) = Overflow
            THEN /\ pc' = "raised"      \* x + timedelta(days=365): OverflowError
                 /\ df' = df
            ELSE /\ pc' = "returned"
                 /\ df' = [i \in DOMAIN cleaned_data |-> output_record(cleaned_data[i])]
    /\ UNCHANGED <<row_idx, row, current_person, current_date, last_valid_date,
                   cleaned_data, seen_ab>>

Init ==
    /\ pc = "scan"
    /\ row_idx = 0
    /\ row = <<>>
    /\ current_person = None
    /\ current_date = None
    /\ last_valid_date = Anchor
    /\ cleaned_data = <<>>
    /\ df = <<>>
    /\ seen_ab = <<>>

(***************************************************************************)
(* Sheets.  Spec scans up to MaxRows rows whose columns A and B vary (the  *)
(* person / date state machine over several rows); SpecRow scans up to     *)
(* MaxWideRows rows in which all eight columns vary (the extraction of one *)
(* row).                                                                   *)
(***************************************************************************)
MaxRows == 3
MaxWideRows == 1

ColA == {None, Text("Mike Jones"), Text("\tJohn Smith\n"), Text("Boss Chorus")}
ColB == {None, Num(120), Num(10000), Date(1900, 3, 20, 0), Date(2025, 7, 23, 12),
         Date(2025, 7, 24, 0), Date(2027, 12, 31, 0), Date(9999, 1, 1, 0)}

SheetRows == {<<a, b, None, None, None, None, None, None>> : a \in ColA, b \in ColB}

WideA == {None, Text("Mike Jones"), Text("Boss Chorus"), Text("Total")}
WideB == {None, Num(120), Date(1900, 3, 20, 0), Date(2025, 7, 25, 0)}
WideC == {None, Num(45)}
WideD == {None, Text("Tube Screamer")}
WideE == {None, Num(20)}
WideF == {None, Num(30), Text("MXR Phase 90")}
WideG == {None, Num(10)}
WideH == {None, Date(1900, 1, 15, 0)}

WideRows == WideA \X WideB \X WideC \X WideD \X WideE \X WideF \X WideG \X WideH

ScanRow ==
    /\ pc = "scan"
    /\ row_idx < MaxRows
    /\ \E r \in SheetRows : ProcessRow(r)

ScanWideRow ==
    /\ pc = "scan"
    /\ row_idx < MaxWideRows
    /\ \E r \in WideRows : ProcessRow(r)

Next == ScanRow \/ Finish

NextRow == ScanWideRow \/ Finish

Spec == Init /\ [][Next]_vars

SpecRow == Init /\ [][NextRow]_vars

(***************************************************************************)
(* Vocabulary of the properties                                            *)
(***************************************************************************)
\* a step of the row loop
RowStep == pc = "scan" /\ pc' = "scan" /\ row_idx' = row_idx + 1

\* the cell passes the person-name predicate / the pedal-name predicate
PassesPerson(cell) == Truthy(cell) /\ is_person_name_simple(cell)
PassesPedal(cell) == Truthy(cell) /\ is_pedal_name(cell)

\* a date-like cell on or after 2025-07-24
QualifyingDate(cell) == cell.t = "date" /\ DtKey(cell) >= DtKey(Anchor)

\* the number a valid price cell stands for
PriceValue(cell) == IF cell.t = "date" THEN cell.d ELSE cell.v

\* the column-B date of the latest person row with a qualifying date, else the anchor
RECURSIVE ActiveDate(_)
ActiveDate(seen) ==
    IF seen = <<>> THEN Anchor
    ELSE LET last == seen[Len(seen)]
         IN  IF PassesPerson(last[1]) /\ QualifyingDate(last[2])
             THEN last[2]
             ELSE ActiveDate(SubSeq(seen, 1, Len(seen) - 1))

\* each of the four checks of a row resolves a name and a price
Resolves1(r) == PassesPedal(r[1]) /\ (is_valid_price(r[2]) \/ is_valid_price(r[3]))
Resolves2(r) == PassesPedal(r[4]) /\ (is_valid_price(r[5]) \/ is_valid_price(r[6]))
Resolves3(r) == PassesPedal(r[6]) /\ is_valid_price(r[7])
ResolvesH(r) == is_valid_price(r[8]) /\ (PassesPedal(r[1]) \/ PassesPedal(r[4]))

Count(b) == IF b THEN 1 ELSE 0

\* a YYYY-MM-DD text read back as a day number
DigitValue(c) == CHOOSE n \in 0..9 : CharAt(DigitChars, n + 1) = c

RECURSIVE ParseNat(_)
ParseNat(s) ==
    IF s = "" THEN 0
    ELSE ParseNat(SubSeq(s, 1, Len(s) - 1)) * 10 + DigitValue(CharAt(s, Len(s)))

ParseDay(s) ==
    ToOrdinal(ParseNat(SubSeq(s, 1, 4)), ParseNat(SubSeq(s, 6, 7)), ParseNat(SubSeq(s, 9, 10)))

(***************************************************************************)
(* Properties                                                              *)
(***************************************************************************)

\* C1: in every returned record the expiration date is exactly 365 days
\* after the sale date (as calendar days between the two formatted dates).
C1_ExpirationIs365Days ==
    pc = "returned" =>
        /\ Len(df) = Len(cleaned_data)
        /\ \A i \in DOMAIN df :
              /\ ParseDay(df[i].date) = ToOrdinal(cleaned_data[i].date.y, cleaned_data[i].date.m, cleaned_data[i].date.d)
              /\ ParseDay(df[i].expiration_date) - ParseDay(df[i].date) = 365

\* C1 witness: a returned record sold on 2027-12-31, whose 365 days span
\* 29 February 2028, expires on 2028-12-30.
C1_Witness ==
    /\ pc = "returned"
    /\ \E i \in DOMAIN df :
          df[i].date = "2027-12-31" /\ df[i].expiration_date = "2028-12-30"

\* C2: a scan that extracted zero records returns, and returns the empty
\* sequence of output records.
C2_EmptyScanReturnsEmpty ==
    (pc # "scan" /\ cleaned_data = <<>>) => (pc = "returned" /\ df = <<>>)

\* C3: every record a row emits is dated with the column-B date of the
\* latest earlier person row that carried a qualifying date, or the anchor
\* when there is none; a person row without a qualifying date changes the
\* active person and carries the last valid date forward.
C3_RecordDateIsActiveDate ==
    [][RowStep =>
        /\ \A i \in (Len(cleaned_data) + 1)..Len(cleaned_data') :
              cleaned_data'[i].date = ActiveDate(seen_ab)
        /\ (PassesPerson(row'[1]) /\ ~QualifyingDate(row'[2])) =>
              /\ current_person' = Text(Strip(row'[1].v))
              /\ current_date' = ActiveDate(seen_ab)
              /\ last_valid_date' = last_valid_date]_vars

\* C3 witness: Mike Jones dated 2027-12-31, then John Smith (the cell has a
\* leading tab and a trailing line feed) without a date,
\* then a pedal row whose record is John Smith's and dated 2027-12-31.
C3_Witness ==
    /\ pc = "scan" /\ row_idx = 3
    /\ seen_ab[1] = <<Text("Mike Jones"), Date(2027, 12, 31, 0)>>
    /\ seen_ab[2] = <<Text("\tJohn Smith\n"), None>>
    /\ row[1] = Text("Boss Chorus")
    /\ cleaned_data = <<[person |-> "John Smith", pedal_name |-> "Boss Chorus",
                         price |-> 120, date |-> Date(2027, 12, 31, 0)]>>

\* C4: a row whose column A passes the person-name predicate emits no
\* record, whatever its other columns hold, and becomes the active person.
C4_PersonRowEmitsNothing ==
    [][(RowStep /\ PassesPerson(row'[1])) =>
          /\ cleaned_data' = cleaned_data
          /\ current_person' = Text(Strip(row'[1].v))]_vars

\* C4 witness: a person row without a date whose columns B-H hold valid
\* names and prices has been scanned and nothing was emitted.
C4_Witness ==
    /\ pc = "scan" /\ row_idx = 1
    /\ row = <<Text("Mike Jones"), Num(120), Num(45), Text("Tube Screamer"), Num(20),
               Text("MXR Phase 90"), Num(10), Date(1900, 1, 15, 0)>>
    /\ current_person = Text("Mike Jones")
    /\ cleaned_data = <<>>

\* C5 as claimed: a row whose column A does not pass the person-name
\* predicate leaves current_person, current_date and last_valid_date
\* unchanged.
C5_NonPersonRowChangesNoState ==
    [][(RowStep /\ ~PassesPerson(row'[1])) =>
          UNCHANGED <<current_person, current_date, last_valid_date>>]_vars

\* C5 amended: such a row leaves current_person and last_valid_date
\* unchanged, and leaves current_date unchanged unless it was unset, in
\* which case current_date becomes last_valid_date.
C5_NonPersonRowOnlyDefaultsDate ==
    [][(RowStep /\ ~PassesPerson(row'[1])) =>
          /\ current_person' = current_person
          /\ last_valid_date' = last_valid_date
          /\ current_date' = IF current_date = None THEN last_valid_date ELSE current_date]_vars

\* C5 witness: after Mike Jones dated 2027-12-31, a pedal row was scanned
\* and the three fields are as the person row left them.
C5_Witness ==
    /\ pc = "scan" /\ row_idx = 2
    /\ seen_ab[1] = <<Text("Mike Jones"), Date(2027, 12, 31, 0)>>
    /\ row[1] = Text("Boss Chorus") /\ row[2] = Num(120)
    /\ current_person = Text("Mike Jones")
    /\ current_date = Date(2027, 12, 31, 0)
    /\ last_valid_date = Date(2027, 12, 31, 0)

\* C6: every emitted record's price p is a number with 0 < p < 10000, and
\* is the value of a numeric cell of its row or the day-of-month (1..31) of
\* a date-like cell of its row earlier than the anchor; the returned table
\* keeps the prices.
C6_PriceInRange ==
    /\ [](\A i \in DOMAIN df : df[i].price = cleaned_data[i].price)
    /\ [][RowStep =>
            \A i \in (Len(cleaned_data) + 1)..Len(cleaned_data') :
               LET p == cleaned_data'[i].price
               IN  /\ p \in Int /\ 0 < p /\ p < 10000
                   /\ \E k \in DOMAIN row' :
                         \/ row'[k].t = "num" /\ row'[k].v = p
                         \/ /\ row'[k].t = "date"
                            /\ DtKey(row'[k]) < DtKey(Anchor)
                            /\ row'[k].d = p
                            /\ p \in 1..31]_vars

\* C6 witness: a record priced 23 from the cell 2025-07-23 12:00, the last
\* day before the anchor, has been emitted and returned.
C6_Witness ==
    /\ pc = "returned"
    /\ row[2] = Date(2025, 7, 23, 12)
    /\ df[Len(df)].price = 23

\* C7: a date-like cell is a valid price exactly when it is earlier than
\* the anchor and a qualifying column-B date exactly when it is on or after
\* it, so it is always one of the two and never both.
C7_AnchorPartitionsDates ==
    \A k \in DOMAIN row :
        is_date_value(row[k]) =>
            /\ is_valid_price(row[k]) <=> DtKey(row[k]) < DtKey(Anchor)
            /\ has_valid_date(row[k]) <=> DtKey(row[k]) >= DtKey(Anchor)
            /\ is_valid_price(row[k]) <=> ~has_valid_date(row[k])

\* C7 witness: a person row dated with the anchor itself was taken as a
\* dated person row, and the anchor is not a price.
C7_Witness ==
    /\ row_idx = 2
    /\ seen_ab[1] = <<Text("Mike Jones"), Date(2027, 12, 31, 0)>>
    /\ row[1] = Text("\tJohn Smith\n") /\ row[2] = Anchor
    /\ last_valid_date = Anchor
    /\ ~is_valid_price(row[2])

\* C8: a row that reaches extraction emits one record per check that
\* resolves a name and a price, so between 0 and 4; the column-H record is
\* the last one and is named from column A when A passes the pedal-name
\* predicate, from column D otherwise.
C8_ChecksAreIndependent ==
    [][(RowStep /\ ~PassesPerson(row'[1])) =>
          LET r == row'
              n == Count(Resolves1(r)) + Count(Resolves2(r)) + Count(Resolves3(r))
                     + Count(ResolvesH(r))
          IN  /\ Len(cleaned_data') = Len(cleaned_data) + n
              /\ SubSeq(cleaned_data', 1, Len(cleaned_data)) = cleaned_data
              /\ n \in 0..4
              /\ ResolvesH(r) =>
                    LET rec == cleaned_data'[Len(cleaned_data')]
                    IN  /\ rec.price = PriceValue(r[8])
                        /\ rec.pedal_name =
                              IF PassesPedal(r[1]) THEN Strip(r[1].v) ELSE Strip(r[4].v)]_vars

\* C8 witness: one row has emitted four records, one per check, the last
\* from column H named by column A.
C8_Witness ==
    /\ pc = "scan" /\ row_idx = 1
    /\ row = <<Text("Boss Chorus"), Num(120), None, Text("Tube Screamer"), Num(20),
               Text("MXR Phase 90"), Num(10), Date(1900, 1, 15, 0)>>
    /\ Len(cleaned_data) = 4
    /\ cleaned_data[4].pedal_name = "Boss Chorus" /\ cleaned_data[4].price = 15

\* C9: a column group whose name cell passes the pedal-name predicate takes
\* its price from the primary column when that is a valid price, from the
\* secondary column only when the primary is not and the secondary is;
\* group 3 has only its primary column.
C9_PrimaryBeforeSecondary ==
    [][(RowStep /\ ~PassesPerson(row'[1])) =>
          LET r == row'
              base == Len(cleaned_data)
              n1 == Count(Resolves1(r))
              n2 == Count(Resolves2(r))
          IN  /\ Len(cleaned_data') >= base + n1 + n2 + Count(Resolves3(r))
              /\ Resolves1(r) =>
                    /\ cleaned_data'[base + 1].pedal_name = Strip(r[1].v)
                    /\ cleaned_data'[base + 1].price =
                          IF is_valid_price(r[2]) THEN PriceValue(r[2]) ELSE PriceValue(r[3])
              /\ Resolves2(r) =>
                    /\ cleaned_data'[base + n1 + 1].pedal_name = Strip(r[4].v)
                    /\ cleaned_data'[base + n1 + 1].price =
                          IF is_valid_price(r[5]) THEN PriceValue(r[5]) ELSE PriceValue(r[6])
              /\ Resolves3(r) =>
                    /\ cleaned_data'[base + n1 + n2 + 1].pedal_name = Strip(r[6].v)
                    /\ cleaned_data'[base + n1 + n2 + 1].price = PriceValue(r[7])
              /\ (~Resolves1(r) /\ ~Resolves2(r) /\ ~Resolves3(r) /\ ~ResolvesH(r)) =>
                    cleaned_data' = cleaned_data]_vars

\* C9 witness: group 1's primary cell is a date after the anchor (no
\* price) and its record is priced from the secondary cell, while group 2
\* has both cells valid and is priced from its primary cell.
C9_Witness ==
    /\ pc = "scan" /\ row_idx = 1
    /\ row[1] = Text("Boss Chorus") /\ row[2] = Date(2025, 7, 25, 0) /\ row[3] = Num(45)
    /\ row[4] = Text("Tube Screamer") /\ row[5] = Num(20) /\ row[6] = Num(30)
    /\ Len(cleaned_data) >= 2
    /\ cleaned_data[1].price = 45
    /\ cleaned_data[2].price = 20

\* C10: whenever current_date is set it equals last_valid_date,
\* last_valid_date is never earlier than the anchor, and so is the date of
\* every emitted record.
C10_DatesNeverBeforeAnchor ==
    /\ current_date # None => current_date = last_valid_date
    /\ DtKey(last_valid_date) >= DtKey(Anchor)
    /\ \A i \in DOMAIN cleaned_data :
          /\ cleaned_data[i].date # None
          /\ DtKey(cleaned_data[i].date) >= DtKey(Anchor)

\* C10 witness: after a person row dated 2027-12-31 a record dated
\* 2027-12-31 has been emitted, and current_date is last_valid_date.
C10_Witness ==
    /\ row_idx >= 2
    /\ current_date = Date(2027, 12, 31, 0)
    /\ last_valid_date = Date(2027, 12, 31, 0)
    /\ cleaned_data # <<>>
    /\ cleaned_data[Len(cleaned_data)].date = Date(2027, 12, 31, 0)

====
